---- MODULE Spec2Model ----
(***************************************************************************)
(* Model of SystemOrchestrator (src/src/core/cis/orchestrator.py) together *)
(* with the logger it calls (src/src/core/logging.py).                     *)
(*                                                                         *)
(* Every public method of the orchestrator is one atomic action (the       *)
(* orchestrator is single-threaded and synchronous).  A method body is     *)
(* translated as a function on a frame: a record holding the mutable maps  *)
(* of the orchestrator, the trace of capability calls and of state writes  *)
(* made so far by the running method, the pending exception and the return *)
(* value.  Every step of a body leaves a frame with a pending exception    *)
(* untouched, which is how the rest of a try block is skipped.             *)
(***************************************************************************)
EXTENDS Naturals, Sequences, FiniteSets, TLC

\* ------------------------------------------------------------------ bounds
\* Names a bootstrapper may register, and one name that is never registered.
Names == {"A", "B", "C"}
Unregistered == "Z"
DepNames == Names \cup {Unregistered}
\* Most dependency declarations in one registry.
MaxEdges == 3
\* Caps of the recovery attempt counter explored (the code has no cap): with
\* one subsystem registered, and with two.
MaxAttempts == 4
MaxPairAttempts == 1
\* Cap of the logical clock that stamps checkpoints.
MaxClock == 11
\* Most rules registered with one validator, and most validate_system calls.
MaxRules == 2
MaxValidations == 2
\* Most successful boots of one CIS.
MaxBoots == 3

\* ------------------------------------------------------ program constants
max_recovery_attempts == 3
CheckpointCapacity == 10

\* LifecycleState
UNINITIALIZED == "uninitialized"
INITIALIZING == "initializing"
VALIDATING == "validating"
OPERATIONAL == "operational"
RECONCILING == "reconciling"
CHECKPOINTING == "checkpointing"
TERMINATING == "terminating"
TERMINATED == "terminated"
FAILED == "failed"
LifecycleState == {UNINITIALIZED, INITIALIZING, VALIDATING, OPERATIONAL, RECONCILING,
                   CHECKPOINTING, TERMINATING, TERMINATED, FAILED}

\* The methods class ThalosLogger defines.  The orchestrator also calls
\* logger.lifecycle and logger.state_transition, which are not among them.
ThalosLoggerMethods == {"configure", "debug", "info", "warning", "error", "critical",
                        "exception", "log_lifecycle", "log_state_transition",
                        "log_operation", "get_logger", "shutdown"}

\* A subsystem instance is a stub: what each lifecycle capability does whenever
\* it is called.  "true"/"false" are the returned booleans, "throw" an exception;
\* checkpoint(): "true" returns a dict, "false" returns None (cannot be stamped).
Outcome == {"true", "false", "throw"}
Stub(i, v, o, r, c, t) == [initialize |-> i, validate |-> v, operate |-> o,
                           reconcile |-> r, checkpoint |-> c, terminate |-> t]
Healthy == Stub("true", "true", "true", "true", "true", "true")
InitFalse == Stub("false", "true", "true", "true", "true", "true")
InitThrow == Stub("throw", "true", "true", "true", "true", "true")
ReconcileFails == Stub("true", "true", "throw", "false", "true", "true")
NeverRecovers == Stub("false", "true", "throw", "false", "true", "true")
LifecycleInstances == {Healthy, ReconcileFails, NeverRecovers}
ValidateFalse == Stub("true", "false", "true", "true", "true", "true")
ValidateThrows == Stub("true", "throw", "true", "true", "true", "true")
CheckpointThrows == Stub("true", "true", "true", "true", "throw", "true")
CheckpointUnstampable == Stub("true", "true", "true", "true", "false", "true")
TerminateFalse == Stub("true", "true", "true", "true", "true", "false")
TerminateThrows == Stub("true", "true", "true", "true", "true", "throw")
FaultyInstances == {Healthy, ValidateFalse, ValidateThrows, CheckpointThrows,
                    CheckpointUnstampable, TerminateFalse, TerminateThrows}
\* get_health() reads live metrics: its result is chosen anew at every call.
HealthOutcome == {"ok", "critical", "throw"}
\* No monitor_health call is between two of its get_health() calls.
Idle == [active |-> FALSE, done |-> FALSE, interleaved |-> FALSE, keys |-> <<>>,
         i |-> 0, health |-> <<>>, returned |-> <<>>]

VARIABLES
    subsystems,          \* dict name -> instance, as its (name, instance) pairs in insertion order
    states,              \* dict name -> LifecycleState
    dependencies,        \* dict name -> set of names, each set as its iteration order
    checkpoints,         \* dict name -> list of stamped snapshots
    health_metrics,      \* dict name -> last health
    recovery_attempts,   \* dict name -> int
    orchestrator_state,
    clock,               \* datetime.now(), as a logical clock
    calls,               \* capability calls made by the last public call
    trans,               \* writes to states made by the last public call
    ret,                 \* the last public call: its name, argument, return value, exception
    validation_rules,    \* SystemValidator: list of rules, in registration order
    validation_history,  \* SystemValidator: list of validation records
    validation,          \* the last validate_system call: return value, exception raised
    system_state,        \* CIS: dict with status, version, booted, initialized, validated
    memory,              \* CIS: the MemoryModule created by boot, or None
    codegen,             \* CIS: the CodeGenerator created by boot, or None
    cli,                 \* CIS: the CLI created by boot, or None
    api,                 \* CIS: the API created by boot, or None
    _state_history,      \* CIS: list of logged state transitions
    cis_call,            \* the last call on the CIS: its name and return value
    in_flight            \* a monitor_health call of one caller that is between two get_health() calls

validator_vars == <<validation_rules, validation_history, validation>>
orchestrator_vars == <<subsystems, states, dependencies, checkpoints, health_metrics,
                       recovery_attempts, orchestrator_state, calls, trans, ret>>
cis_vars == <<system_state, memory, codegen, cli, api, _state_history, cis_call>>
vars == <<subsystems, states, dependencies, checkpoints, health_metrics,
          recovery_attempts, orchestrator_state, clock, calls, trans, ret,
          validator_vars, cis_vars, in_flight>>

\* ----------------------------------------------------------------- helpers
Keys(d) == [i \in 1..Len(d) |-> d[i].name]
KeySet(d) == {d[i].name : i \in 1..Len(d)}
Registered == KeySet(subsystems)
SubsystemOf(name) == subsystems[CHOOSE i \in 1..Len(subsystems) : subsystems[i].name = name].instance
Get(d, k) == IF k \in DOMAIN d THEN d[k] ELSE "None"
Put(d, k, v) == [x \in DOMAIN d \cup {k} |-> IF x = k THEN v ELSE d[x]]
Range(s) == {s[i] : i \in 1..Len(s)}
Reverse(s) == [i \in 1..Len(s) |-> s[Len(s) + 1 - i]]
LastN(s, n) == IF Len(s) > n THEN SubSeq(s, Len(s) - n + 1, Len(s)) ELSE s
\* A set with its iteration order: a sequence without repetition.
RECURSIVE Orders(_)
Orders(S) == IF S = {} THEN {<<>>}
             ELSE UNION {{<<x>> \o o : o \in Orders(S \ {x})} : x \in S}

\* Exceptions
NoExc == [type |-> "none", current_state |-> "", expected_state |-> ""]
Exc(t) == [type |-> t, current_state |-> "", expected_state |-> ""]
Raised(m) == m.exc.type # "none"
Raise(m, t) == IF Raised(m) THEN m ELSE [m EXCEPT !.exc = Exc(t)]
Caught(m) == [m EXCEPT !.exc = NoExc]
Return(m, v) == IF Raised(m) THEN m ELSE [m EXCEPT !.rv = v]

Frame == [states |-> states, checkpoints |-> checkpoints,
          health_metrics |-> health_metrics,
          recovery_attempts |-> recovery_attempts,
          orchestrator_state |-> orchestrator_state, clock |-> clock,
          calls |-> <<>>, trans |-> <<>>, exc |-> NoExc, rv |-> "None",
          value |-> <<>>]

\* logger.<method>(...): an attribute the logger lacks raises AttributeError.
logger_call(m, method) ==
    IF Raised(m) THEN m
    ELSE IF method \in ThalosLoggerMethods THEN m
    ELSE Raise(m, "AttributeError")

\* A write of `failed` that is also made for every subsystem declaring `name`.
SetState_cascading(m, name, new_state) ==
    IF Raised(m) THEN m
    ELSE [m EXCEPT !.states =
                [x \in DOMAIN m.states \cup {name} |->
                    IF x = name THEN new_state
                    ELSE IF new_state = FAILED /\ name \in Range(dependencies[x])
                    THEN FAILED
                    ELSE m.states[x]],
                   !.trans = Append(@, [sub |-> name, from |-> m.states[name],
                                        to |-> new_state])]

\* self.states[name] = new_state
SetState(m, name, new_state) ==
    IF Raised(m) THEN m
    ELSE [m EXCEPT !.states = Put(@, name, new_state),
                   !.trans = Append(@, [sub |-> name, from |-> m.states[name],
                                        to |-> new_state])]

_transition_state(m, name, new_state) ==
    logger_call(SetState(m, name, new_state), "state_transition")

\* self.subsystems[name].<method>() for a boolean capability: the call is
\* recorded; "throw" raises, "false" raises `onFalse` (the caller's `if not`).
Call(m, name, method, onFalse) ==
    IF Raised(m) THEN m
    ELSE LET out == SubsystemOf(name)[method]
             m1 == [m EXCEPT !.calls = Append(@, [sub |-> name, method |-> method,
                                                  outcome |-> out])]
         IN  CASE out = "throw" -> Raise(m1, "Exception")
               [] out = "false" /\ onFalse # "" -> Raise(m1, onFalse)
               [] OTHER -> m1

\* ------------------------------------------------- _resolve_dependencies
\* The depth-first topological sort; st holds result, visited, temp_mark and
\* whether DependencyError (a cycle) was raised.
RECURSIVE visit(_, _), visit_deps(_, _, _), visit_all(_, _, _)
visit_appending_first(st, name) ==
    IF st.raised THEN st
    ELSE IF name \in st.temp_mark THEN [st EXCEPT !.raised = TRUE]
    ELSE IF name \in st.visited THEN st
    ELSE LET s1 == [st EXCEPT !.temp_mark = @ \cup {name},
                              !.result = Append(@, name)]
             s2 == visit_deps(s1, IF name \in DOMAIN dependencies
                                  THEN dependencies[name] ELSE <<>>, 1)
         IN  IF s2.raised THEN s2
             ELSE [s2 EXCEPT !.temp_mark = @ \ {name},
                             !.visited = @ \cup {name}]
visit(st, name) ==
    IF st.raised THEN st
    ELSE IF name \in st.temp_mark THEN [st EXCEPT !.raised = TRUE]
    ELSE IF name \in st.visited THEN st
    ELSE LET s1 == [st EXCEPT !.temp_mark = @ \cup {name}]
             s2 == visit_deps(s1, IF name \in DOMAIN dependencies
                                  THEN dependencies[name] ELSE <<>>, 1)
         IN  IF s2.raised THEN s2
             ELSE [s2 EXCEPT !.temp_mark = @ \ {name},
                             !.visited = @ \cup {name},
                             !.result = Append(@, name)]
visit_deps_unchecked(st, deps, i) ==
    IF i > Len(deps) \/ st.raised THEN st
    ELSE visit_deps(visit(st, deps[i]), deps, i + 1)
\* for dep in self.dependencies.get(name, []): if dep in self.subsystems: visit(dep)
visit_deps(st, deps, i) ==
    IF i > Len(deps) \/ st.raised THEN st
    ELSE visit_deps(IF deps[i] \in Registered THEN visit(st, deps[i]) ELSE st,
                    deps, i + 1)
\* for name in self.subsystems: if name not in visited: visit(name)
visit_all(st, keys, i) ==
    IF i > Len(keys) \/ st.raised THEN st
    ELSE visit_all(IF keys[i] \notin st.visited THEN visit(st, keys[i]) ELSE st,
                   keys, i + 1)
TopologicalSort ==
    visit_all([result |-> <<>>, visited |-> {}, temp_mark |-> {}, raised |-> FALSE],
              Keys(subsystems), 1)
_resolve_dependencies(m) ==
    IF Raised(m) THEN m
    ELSE IF TopologicalSort.raised THEN Raise(m, "DependencyError")
    ELSE [m EXCEPT !.value = TopologicalSort.result]

\* ------------------------------------------------- _initialize_subsystem
\* The except clause shared by _initialize_subsystem, reconcile_subsystem and
\* validate_all: log, mark the subsystem failed, return False.
FailedHandler_logging_only(m, name) ==
    Return(logger_call(Caught(m), "exception"), "False")
FailedHandler(m, name) ==
    Return(SetState(logger_call(Caught(m), "exception"), name, FAILED), "False")

DependenciesUnchecked(m, name) == TRUE
DependenciesOperational(m, name) ==
    \A i \in 1..Len(dependencies[name]) :
        Get(m.states, dependencies[name][i]) = OPERATIONAL

_initialize_subsystem(m, name) ==
    IF Raised(m) THEN m
    ELSE LET m0 == IF DependenciesOperational(m, name) THEN m
                   ELSE Raise(m, "DependencyError")
             m1 == _transition_state(m0, name, INITIALIZING)
             m2 == Call(m1, name, "initialize", "LifecycleError")
             m3 == _transition_state(m2, name, OPERATIONAL)
             m4 == Return(logger_call(m3, "lifecycle"), "True")
         IN  IF Raised(m4) THEN FailedHandler(m4, name) ELSE m4

\* --------------------------------------------------- reconcile_subsystem
reconcile_subsystem(m, name) ==
    IF Raised(m) THEN m
    ELSE IF name \notin Registered THEN Raise(m, "DependencyError")
    ELSE LET m1 == _transition_state(m, name, RECONCILING)
             m2 == Call(m1, name, "reconcile", "ReconciliationError")
             m3 == _transition_state(m2, name, OPERATIONAL)
             m4 == Return(logger_call(m3, "lifecycle"), "True")
         IN  IF Raised(m4) THEN FailedHandler(m4, name) ELSE m4

\* -------------------------------------------------------- _handle_failure
_handle_failure_unbounded(m, name) ==
    IF Raised(m) THEN m
    ELSE LET m1 == [SetState(m, name, FAILED) EXCEPT !.recovery_attempts[name] = @ + 1]
             reset(x) == IF Raised(x) THEN x
                         ELSE [x EXCEPT !.recovery_attempts[name] = 0]
             m2 == reconcile_subsystem(logger_call(m1, "warning"), name)
             m3 == _initialize_subsystem(m2, name)
         IN  IF Raised(m2) THEN m2
             ELSE IF m2.rv = "True"
                  THEN Return(reset(logger_call(m2, "info")), "None")
             ELSE IF Raised(m3) THEN m3
             ELSE IF m3.rv = "True"
                  THEN Return(reset(logger_call(m3, "info")), "None")
             ELSE Return(logger_call(m3, "critical"), "None")
_handle_failure_saturating(m, name) ==
    IF Raised(m) THEN m
    ELSE LET m1 == [SetState(m, name, FAILED) EXCEPT
                        !.recovery_attempts[name] =
                            IF @ < max_recovery_attempts THEN @ + 1 ELSE @]
             reset(x) == IF Raised(x) THEN x
                         ELSE [x EXCEPT !.recovery_attempts[name] = 0]
             m2 == reconcile_subsystem(logger_call(m1, "warning"), name)
             m3 == _initialize_subsystem(m2, name)
         IN  IF m1.recovery_attempts[name] <= max_recovery_attempts
             THEN IF Raised(m2) THEN m2
                  ELSE IF m2.rv = "True"
                       THEN Return(reset(logger_call(m2, "info")), "None")
                  ELSE IF Raised(m3) THEN m3
                  ELSE IF m3.rv = "True"
                       THEN Return(reset(logger_call(m3, "info")), "None")
                  ELSE Return(logger_call(m3, "critical"), "None")
             ELSE Return(logger_call(m1, "critical"), "None")
_handle_failure(m, name) ==
    IF Raised(m) THEN m
    ELSE LET m1 == [SetState(m, name, FAILED) EXCEPT !.recovery_attempts[name] = @ + 1]
             reset(x) == IF Raised(x) THEN x
                         ELSE [x EXCEPT !.recovery_attempts[name] = 0]
             m2 == reconcile_subsystem(logger_call(m1, "warning"), name)
             m3 == _initialize_subsystem(m2, name)
         IN  IF m1.recovery_attempts[name] <= max_recovery_attempts
             THEN IF Raised(m2) THEN m2
                  ELSE IF m2.rv = "True"
                       THEN Return(reset(logger_call(m2, "info")), "None")
                  ELSE IF Raised(m3) THEN m3
                  ELSE IF m3.rv = "True"
                       THEN Return(reset(logger_call(m3, "info")), "None")
                  ELSE Return(logger_call(m3, "critical"), "None")
             ELSE Return(logger_call(m1, "critical"), "None")

\* --------------------------------------------------- checkpoint_subsystem
\* checkpoint_data = checkpoint(); stamp it; append; keep the last 10.
Stamp(m, name) ==
    IF Raised(m) THEN m
    ELSE LET out == SubsystemOf(name).checkpoint
             m1 == [m EXCEPT !.calls = Append(@, [sub |-> name, method |-> "checkpoint",
                                                  outcome |-> out])]
             entry == [timestamp |-> m.clock, state |-> m.states[name]]
         IN  CASE out = "throw" -> Raise(m1, "Exception")
               [] out = "false" -> Raise(m1, "TypeError")
               [] OTHER ->
                    [m1 EXCEPT !.clock = @ + 1,
                               !.checkpoints[name] =
                                    LastN(Append(@, entry), CheckpointCapacity)]

checkpoint_subsystem(m, name) ==
    IF Raised(m) THEN m
    ELSE IF name \notin Registered THEN Raise(m, "DependencyError")
    ELSE LET m1 == _transition_state(m, name, CHECKPOINTING)
             m2 == Stamp(m1, name)
             m3 == _transition_state(m2, name, OPERATIONAL)
             m4 == Return(logger_call(m3, "lifecycle"), "True")
         IN  IF Raised(m4)
             THEN Return(logger_call(Caught(m4), "exception"), "False")
             ELSE m4

\* ---------------------------------------------------------- public calls
SetOrchestratorState(m, s) ==
    IF Raised(m) THEN m ELSE [m EXCEPT !.orchestrator_state = s]

\* The frame a public call ends with becomes the orchestrator's state; an
\* exception that leaves the call keeps the writes made before it.
CommitFrame(m, op, name) ==
    \E f \in {m} :
        /\ states' = f.states
        /\ checkpoints' = f.checkpoints
        /\ health_metrics' = f.health_metrics
        /\ recovery_attempts' = f.recovery_attempts
        /\ orchestrator_state' = f.orchestrator_state
        /\ clock' = f.clock
        /\ calls' = f.calls
        /\ trans' = f.trans
        /\ ret' = [op |-> op, name |-> name, exc |-> f.exc,
                   rv |-> IF Raised(f) THEN "raised" ELSE f.rv,
                   value |-> IF Raised(f) THEN <<>> ELSE f.value]
        /\ UNCHANGED <<subsystems, dependencies, validator_vars, cis_vars>>
Commit(m, op, name) == CommitFrame(m, op, name) /\ UNCHANGED in_flight

register_subsystem_overwriting(name, subsystem, depends_on) ==
    /\ subsystems' = IF name \in Registered
                     THEN [i \in 1..Len(subsystems) |->
                              IF subsystems[i].name = name
                              THEN [name |-> name, instance |-> subsystem]
                              ELSE subsystems[i]]
                     ELSE Append(subsystems, [name |-> name, instance |-> subsystem])
    /\ states' = Put(states, name, UNINITIALIZED)
    /\ dependencies' = Put(dependencies, name, depends_on)
    /\ checkpoints' = Put(checkpoints, name, <<>>)
    /\ recovery_attempts' = Put(recovery_attempts, name, 0)
    /\ calls' = <<>>
    /\ trans' = <<>>
    /\ ret' = [op |-> "register_subsystem", name |-> name, exc |-> NoExc,
               rv |-> "None", value |-> <<>>]
    /\ UNCHANGED <<health_metrics, orchestrator_state, clock, validator_vars, cis_vars,
                        in_flight>>
register_subsystem_without_history(name, subsystem, depends_on) ==
    IF name \in Registered
    THEN Commit(Raise(Frame, "LifecycleError"), "register_subsystem", name)
    ELSE /\ subsystems' = Append(subsystems, [name |-> name, instance |-> subsystem])
         /\ states' = Put(states, name, UNINITIALIZED)
         /\ dependencies' = Put(dependencies, name, depends_on)
         /\ checkpoints' = checkpoints
         /\ recovery_attempts' = Put(recovery_attempts, name, 0)
         /\ calls' = <<>>
         /\ trans' = <<>>
         /\ ret' = [op |-> "register_subsystem", name |-> name,
                    exc |-> logger_call(Frame, "info").exc,
                    rv |-> IF Raised(logger_call(Frame, "info")) THEN "raised" ELSE "None",
                    value |-> <<>>]
         /\ UNCHANGED <<health_metrics, orchestrator_state, clock, validator_vars, cis_vars,
                        in_flight>>
register_subsystem(name, subsystem, depends_on) ==
    IF name \in Registered
    THEN Commit(Raise(Frame, "LifecycleError"), "register_subsystem", name)
    ELSE /\ subsystems' = Append(subsystems, [name |-> name, instance |-> subsystem])
         /\ states' = Put(states, name, UNINITIALIZED)
         /\ dependencies' = Put(dependencies, name, depends_on)
         /\ checkpoints' = Put(checkpoints, name, <<>>)
         /\ recovery_attempts' = Put(recovery_attempts, name, 0)
         /\ calls' = <<>>
         /\ trans' = <<>>
         /\ ret' = [op |-> "register_subsystem", name |-> name,
                    exc |-> logger_call(Frame, "info").exc,
                    rv |-> IF Raised(logger_call(Frame, "info")) THEN "raised" ELSE "None",
                    value |-> <<>>]
         /\ UNCHANGED <<health_metrics, orchestrator_state, clock, validator_vars, cis_vars,
                        in_flight>>

\* for name in order: if not self._initialize_subsystem(name): ... return False
RECURSIVE initialize_loop(_, _, _)
initialize_loop(m, order, i) ==
    IF Raised(m) THEN m
    ELSE IF i > Len(order)
    THEN Return(logger_call(SetOrchestratorState(m, OPERATIONAL), "lifecycle"), "True")
    ELSE LET m1 == _initialize_subsystem(m, order[i])
         IN  IF Raised(m1) THEN m1
             ELSE IF m1.rv = "False"
             THEN Return(SetOrchestratorState(logger_call(m1, "error"), FAILED), "False")
             ELSE initialize_loop(m1, order, i + 1)

initialize_all_body(m) ==
    LET m1 == _resolve_dependencies(logger_call(m, "lifecycle"))
    IN  IF Raised(m1) THEN m1 ELSE initialize_loop(m1, m1.value, 1)

initialize_all == Commit(initialize_all_body(Frame), "initialize_all", "")

\* for name, subsystem in self.subsystems.items(): try: ... except: ... return False
RECURSIVE validate_loop(_, _, _)
validate_loop(m, keys, i) ==
    IF Raised(m) THEN m
    ELSE IF i > Len(keys) THEN Return(logger_call(m, "lifecycle"), "True")
    ELSE LET m1 == _transition_state(m, keys[i], VALIDATING)
             m2 == Call(m1, keys[i], "validate", "LifecycleError")
             m3 == _transition_state(m2, keys[i], OPERATIONAL)
             m4 == logger_call(m3, "lifecycle")
         IN  IF Raised(m4) THEN FailedHandler(m4, keys[i])
             ELSE validate_loop(m4, keys, i + 1)

validate_all ==
    Commit(validate_loop(logger_call(Frame, "lifecycle"), Keys(subsystems), 1),
           "validate_all", "")

operate_subsystem_unguarded(m, name) ==
    IF name \notin Registered THEN Raise(m, "DependencyError")
    ELSE LET m1 == Call(m, name, "operate", "")
         IN  IF Raised(m1)
             THEN Return(_handle_failure(logger_call(Caught(m1), "exception"), name),
                         "False")
             ELSE Return(m1, IF SubsystemOf(name).operate = "true" THEN "True" ELSE "False")
operate_subsystem_body(m, name) ==
    IF name \notin Registered THEN Raise(m, "DependencyError")
    ELSE IF m.states[name] # OPERATIONAL
    THEN [m EXCEPT !.exc = [type |-> "StateError", current_state |-> m.states[name],
                            expected_state |-> OPERATIONAL]]
    ELSE LET m1 == Call(m, name, "operate", "")
         IN  IF Raised(m1)
             THEN Return(_handle_failure(logger_call(Caught(m1), "exception"), name),
                         "False")
             ELSE Return(m1, IF SubsystemOf(name).operate = "true" THEN "True" ELSE "False")

operate_subsystem(name) ==
    Commit(operate_subsystem_body(Frame, name), "operate_subsystem", name)

reconcile_subsystem_recovering(name) ==
    LET m == reconcile_subsystem(Frame, name)
    IN  Commit(IF ~Raised(m) /\ m.rv = "False"
               THEN Return(_handle_failure(m, name), "False")
               ELSE m,
               "reconcile_subsystem", name)
reconcile_subsystem_call(name) ==
    Commit(reconcile_subsystem(Frame, name), "reconcile_subsystem", name)

checkpoint_subsystem_call(name) ==
    Commit(checkpoint_subsystem(Frame, name), "checkpoint_subsystem", name)

\* for name in self.subsystems: if not self.checkpoint_subsystem(name): success = False
RECURSIVE checkpoint_loop(_, _, _, _)
checkpoint_loop(m, keys, i, success) ==
    IF Raised(m) THEN m
    ELSE IF i > Len(keys) THEN Return(logger_call(m, "lifecycle"), success)
    ELSE LET m1 == checkpoint_subsystem(m, keys[i])
         IN  IF Raised(m1) THEN m1
             ELSE IF m1.rv = "False"
             THEN checkpoint_loop(logger_call(m1, "error"), keys, i + 1, "False")
             ELSE checkpoint_loop(m1, keys, i + 1, success)

checkpoint_all ==
    Commit(checkpoint_loop(logger_call(Frame, "lifecycle"), Keys(subsystems), 1, "True"),
           "checkpoint_all", "")

\* for name in order: try: ... except: success = False
RECURSIVE terminate_loop(_, _, _, _)
terminate_loop(m, order, i, success) ==
    IF Raised(m) THEN m
    ELSE IF i > Len(order)
    THEN Return(logger_call(SetOrchestratorState(m, TERMINATED), "lifecycle"), success)
    ELSE LET m1 == _transition_state(m, order[i], TERMINATING)
             m2 == Call(m1, order[i], "terminate", "")
             ok == ~Raised(m2) /\ SubsystemOf(order[i]).terminate = "true"
             m3 == IF Raised(m2) THEN m2
                   ELSE IF ok
                   THEN logger_call(_transition_state(m2, order[i], TERMINATED), "lifecycle")
                   ELSE logger_call(m2, "error")
         IN  IF Raised(m3)
             THEN terminate_loop(logger_call(Caught(m3), "exception"), order, i + 1, "False")
             ELSE terminate_loop(m3, order, i + 1, IF ok THEN success ELSE "False")

terminate_all_body(m) ==
    LET m1 == _resolve_dependencies(logger_call(m, "lifecycle"))
    IN  IF Raised(m1) THEN m1 ELSE terminate_loop(m1, Reverse(m1.value), 1, "True")

terminate_all == Commit(terminate_all_body(Frame), "terminate_all", "")

\* for name, subsystem in self.subsystems.items(): try: ... except: ...
\* health[name] is what get_health() returns at this call.
RECURSIVE monitor_loop(_, _, _, _)
monitor_loop_stopping_at_critical(m, keys, i, health) ==
    IF Raised(m) THEN m
    ELSE IF i > Len(keys) THEN Return(m, "health_metrics")
    ELSE LET name == keys[i]
             m1 == [m EXCEPT !.calls = Append(@, [sub |-> name, method |-> "get_health",
                                                  outcome |-> health[name]])]
             m2 == IF health[name] = "throw" THEN Raise(m1, "Exception")
                   ELSE [m1 EXCEPT !.health_metrics = Put(@, name, health[name])]
             m3 == IF ~Raised(m2) /\ health[name] = "critical"
                   THEN _handle_failure(logger_call(m2, "warning"), name)
                   ELSE m2
             m4 == IF Raised(m3)
                   THEN LET h == logger_call(Caught(m3), "exception")
                        IN  IF Raised(h) THEN h
                            ELSE [h EXCEPT !.health_metrics = Put(@, name, "error")]
                   ELSE m3
         IN  IF health[name] = "critical" THEN Return(m4, "health_metrics")
             ELSE monitor_loop(m4, keys, i + 1, health)
monitor_loop(m, keys, i, health) ==
    IF Raised(m) THEN m
    ELSE IF i > Len(keys) THEN Return(m, "health_metrics")
    ELSE LET name == keys[i]
             m1 == [m EXCEPT !.calls = Append(@, [sub |-> name, method |-> "get_health",
                                                  outcome |-> health[name]])]
             m2 == IF health[name] = "throw" THEN Raise(m1, "Exception")
                   ELSE [m1 EXCEPT !.health_metrics = Put(@, name, health[name])]
             m3 == IF ~Raised(m2) /\ health[name] = "critical"
                   THEN _handle_failure(logger_call(m2, "warning"), name)
                   ELSE m2
             m4 == IF Raised(m3)
                   THEN LET h == logger_call(Caught(m3), "exception")
                        IN  IF Raised(h) THEN h
                            ELSE [h EXCEPT !.health_metrics = Put(@, name, "error")]
                   ELSE m3
         IN  monitor_loop(m4, keys, i + 1, health)

monitor_health(health) ==
    Commit(monitor_loop(Frame, Keys(subsystems), 1, health), "monitor_health", "")

\* monitor_health as a caller that shares the orchestrator with another sees
\* it: the call is entered and parks in get_health() of the first subsystem;
\* each resumption runs one turn of the loop, from the return of get_health()
\* to the next get_health() call or to `return self.health_metrics`.
monitor_health_enter(health) ==
    /\ ~in_flight.active
    /\ subsystems # <<>>
    /\ in_flight' = [active |-> TRUE, done |-> FALSE, interleaved |-> FALSE,
                     keys |-> Keys(subsystems), i |-> 1, health |-> health,
                     returned |-> <<>>]
    /\ UNCHANGED <<orchestrator_vars, clock, validator_vars, cis_vars>>
monitor_health_resume_skipping ==
    /\ in_flight.active
    /\ in_flight' = IF in_flight.i = Len(in_flight.keys)
                    THEN [in_flight EXCEPT !.active = FALSE, !.done = TRUE,
                                           !.returned = health_metrics]
                    ELSE [in_flight EXCEPT !.i = @ + 1]
    /\ UNCHANGED <<orchestrator_vars, clock, validator_vars, cis_vars>>
monitor_health_resume ==
    /\ in_flight.active
    /\ LET last == in_flight.i = Len(in_flight.keys)
           m == monitor_loop(Frame, <<in_flight.keys[in_flight.i]>>, 1, in_flight.health)
       IN  /\ CommitFrame(m, IF last THEN "monitor_health" ELSE "get_health", "")
           /\ in_flight' = IF last
                           THEN [in_flight EXCEPT !.active = FALSE, !.done = TRUE,
                                                  !.returned = m.health_metrics]
                           ELSE [in_flight EXCEPT !.i = @ + 1]

\* A whole public call of the other caller; it runs between two steps of the
\* call in flight when there is one.
OtherCaller(m, op, name) ==
    /\ CommitFrame(m, op, name)
    /\ in_flight' = [in_flight EXCEPT !.interleaved = @ \/ in_flight.active]

\* The bare dependency resolution, as initialize_all and terminate_all call it.
resolve_dependencies_call ==
    Commit(_resolve_dependencies(Frame), "_resolve_dependencies", "")

\* -------------------------------------------------------- SystemValidator
\* The state snapshots handed to validate_system.
Snapshots == {"consistent", "inconsistent"}
RuleNames == {"r1", "r2"}
\* What a rule's predicate does with a snapshot: it returns (valid, message)
\* or throws an exception whose str() is the message.
Returns(valid, message) == [kind |-> "returns", valid |-> valid, message |-> message]
Throws(message) == [kind |-> "throws", valid |-> FALSE, message |-> message]
ValidIfConsistent == [s \in Snapshots |-> IF s = "consistent" THEN Returns(TRUE, "ok")
                                          ELSE Returns(FALSE, "violated")]
NeverValid == [s \in Snapshots |-> Returns(FALSE, "violated")]
AlwaysThrows == [s \in Snapshots |-> Throws("thrown")]
RuleFunctions == {ValidIfConsistent, NeverValid, AlwaysThrows}

NoValidation == [op |-> "__init__", exc |-> "none", message |-> <<>>,
                 failures |-> <<>>, rv |-> "None", invoked |-> <<>>]

\* self.validation_rules.append({'name': ..., 'function': ..., 'critical': ...})
add_rule(name, rule_fn, critical) ==
    /\ validation_rules' = Append(validation_rules,
                                  [name |-> name, function |-> rule_fn,
                                   critical |-> critical])
    /\ UNCHANGED <<subsystems, states, dependencies, checkpoints, health_metrics,
                   recovery_attempts, orchestrator_state, clock, calls, trans, ret,
                   validation_history, validation, cis_vars, in_flight>>

\* One turn of `for rule in self.validation_rules`: acc holds results and
\* critical_failures, the exception that left the loop, if any, and the calls
\* of rule predicates made so far, each with the snapshot it was given.
apply_rule_all_blocking(acc, rule, snapshot) ==
    LET out == rule.function[snapshot]
        result == [rule |-> rule.name, valid |-> out.valid, message |-> out.message,
                   critical |-> rule.critical]
        thrown(a, message) ==
            IF "exception" \notin ThalosLoggerMethods
            THEN [a EXCEPT !.exc = "AttributeError"]
            ELSE [a EXCEPT !.critical_failures =
                      Append(@, [rule |-> rule.name, valid |-> FALSE,
                                 message |-> message, critical |-> TRUE])]
        acc0 == [acc EXCEPT !.invoked = Append(@, [rule |-> rule.name,
                                                     snapshot |-> snapshot])]
        acc1 == [acc0 EXCEPT !.results = Append(@, result)]
    IN  IF acc.exc # "none" THEN acc
        ELSE IF out.kind = "throws" THEN thrown(acc0, out.message)
        ELSE IF out.valid THEN acc1
        ELSE IF "warning" \notin ThalosLoggerMethods THEN thrown(acc1, "AttributeError")
        ELSE [acc1 EXCEPT !.critical_failures = Append(@, result)]
apply_rule(acc, rule, snapshot) ==
    LET out == rule.function[snapshot]
        result == [rule |-> rule.name, valid |-> out.valid, message |-> out.message,
                   critical |-> rule.critical]
        thrown(a, message) ==
            IF "exception" \notin ThalosLoggerMethods
            THEN [a EXCEPT !.exc = "AttributeError"]
            ELSE IF rule.critical
            THEN [a EXCEPT !.critical_failures =
                      Append(@, [rule |-> rule.name, valid |-> FALSE,
                                 message |-> message, critical |-> TRUE])]
            ELSE a
        acc0 == [acc EXCEPT !.invoked = Append(@, [rule |-> rule.name,
                                                     snapshot |-> snapshot])]
        acc1 == [acc0 EXCEPT !.results = Append(@, result)]
    IN  IF acc.exc # "none" THEN acc
        ELSE IF out.kind = "throws" THEN thrown(acc0, out.message)
        ELSE IF out.valid THEN acc1
        ELSE IF "warning" \notin ThalosLoggerMethods THEN thrown(acc1, "AttributeError")
        ELSE IF rule.critical
        THEN [acc1 EXCEPT !.critical_failures = Append(@, result)]
        ELSE acc1

RECURSIVE apply_rules(_, _, _, _)
apply_rules_until_critical(acc, rules, i, snapshot) ==
    IF i > Len(rules) \/ acc.critical_failures # <<>> THEN acc
    ELSE apply_rules(apply_rule(acc, rules[i], snapshot), rules, i + 1, snapshot)
apply_rules(acc, rules, i, snapshot) ==
    IF i > Len(rules) THEN acc
    ELSE apply_rules(apply_rule(acc, rules[i], snapshot), rules, i + 1, snapshot)

\* {'timestamp': ..., 'results': results, 'passed': len(critical_failures) == 0}
validation_record_any_failure(run, now) ==
    [timestamp |-> now, results |-> run.results,
     passed |-> \A i \in 1..Len(run.results) : run.results[i].valid]
validation_record(run, now) ==
    [timestamp |-> now, results |-> run.results,
     passed |-> Len(run.critical_failures) = 0]

\* "Critical validation failures:\n" + "\n".join(f"  - {rule}: {message}"), as
\* its lines, each item line as the pair it prints.
failure_message(critical_failures) ==
    <<"Critical validation failures:">> \o
    [i \in 1..Len(critical_failures) |->
        <<critical_failures[i].rule, critical_failures[i].message>>]

validate_system(snapshot) ==
    LET run == apply_rules([results |-> <<>>, critical_failures |-> <<>>, exc |-> "none",
                            invoked |-> <<>>],
                           validation_rules, 1, snapshot)
        raises(type, message, failures) ==
            [op |-> "validate_system", exc |-> type, message |-> message,
             failures |-> failures, rv |-> "raised", invoked |-> run.invoked]
        unchanged == UNCHANGED <<subsystems, states, dependencies, checkpoints,
                                 health_metrics, recovery_attempts, orchestrator_state,
                                 calls, trans, ret, validation_rules, cis_vars,
                                 in_flight>>
    IN  IF "info" \notin ThalosLoggerMethods \/ run.exc # "none"
        THEN /\ validation' = raises("AttributeError", <<>>, <<>>)
             /\ UNCHANGED <<validation_history, clock>>
             /\ unchanged
        ELSE /\ validation_history' =
                    Append(validation_history, validation_record(run, clock))
             /\ clock' = clock + 1
             /\ validation' =
                    IF run.critical_failures # <<>>
                    THEN raises("ValidationError", failure_message(run.critical_failures),
                                run.critical_failures)
                    ELSE [op |-> "validate_system", exc |-> "none", message |-> <<>>,
                          failures |-> <<>>, rv |-> "True", invoked |-> run.invoked]
             /\ unchanged

\* -------------------------------------------------------------------- CIS
\* The interpreter and the import path the controller runs with: Python 3.8+
\* and the repository's own modules importable (every caller puts src on
\* sys.path before creating a CIS).
PythonVersionOK == TRUE
DependenciesImportable == TRUE
\* Keys and values clients store in the MemoryModule a booted CIS hands out.
StoreKeys == {"k1", "k2"}
StoreValues == {"v1", "v2"}

\* self.memory = None: no object.
None == [class |-> "NoneType"]

\* The CIS object a method runs on, with the method's return value.
Self == [system_state |-> system_state, memory |-> memory, codegen |-> codegen,
         cli |-> cli, api |-> api, _state_history |-> _state_history,
         clock |-> clock, rv |-> "None", value |-> <<>>]

_get_timestamp(c) == c.clock

_log_state_transition(c, from_state, to_state, reason) ==
    [c EXCEPT !._state_history =
                  Append(@, [from |-> from_state, to |-> to_state, reason |-> reason,
                             timestamp |-> _get_timestamp(c)]),
              !.clock = @ + 1]

initialize(c) ==
    IF c.system_state.initialized THEN [c EXCEPT !.rv = "True"]
    ELSE IF ~PythonVersionOK
    THEN [c EXCEPT !.system_state.status = "error",
                   !.system_state.error = "Python 3.8+ required",
                   !.rv = "False"]
    ELSE [_log_state_transition([c EXCEPT !.system_state.initialized = TRUE],
                                "created", "initialized", "Preconditions verified")
          EXCEPT !.rv = "True"]

validate(c) ==
    IF ~c.system_state.initialized THEN [c EXCEPT !.rv = "False"]
    ELSE IF c.system_state.validated THEN [c EXCEPT !.rv = "True"]
    ELSE IF ~DependenciesImportable
    THEN [c EXCEPT !.system_state.status = "error",
                   !.system_state.error = "Missing dependency",
                   !.rv = "False"]
    ELSE [_log_state_transition([c EXCEPT !.system_state.validated = TRUE],
                                "initialized", "validated", "Dependencies verified")
          EXCEPT !.rv = "True"]

\* The objects one boot creates are new ones: they are told apart by the
\* number of the boot that created them.
Boots(c) == Cardinality({i \in 1..Len(c._state_history) :
                            c._state_history[i].to = "operational"})
MemoryModule(id) == [class |-> "MemoryModule", id |-> id, storage |-> <<>>]
CodeGenerator(id) == [class |-> "CodeGenerator", id |-> id, generation_history |-> <<>>]
CLI(id) == [class |-> "CLI", id |-> id]
API(id) == [class |-> "API", id |-> id]

boot_again(c) ==
    LET c1 == initialize(c)
        c2 == validate(c1)
        c3 == [c2 EXCEPT !.memory = MemoryModule(Boots(c) + 1),
                         !.codegen = CodeGenerator(Boots(c) + 1),
                         !.cli = CLI(Boots(c) + 1),
                         !.api = API(Boots(c) + 1),
                         !.system_state.status = "operational",
                         !.system_state.booted = TRUE]
    IN  IF c1.rv = "False" THEN c1
        ELSE IF c2.rv = "False" THEN c2
        ELSE [_log_state_transition(c3, "validated", "operational",
                                    "All subsystems initialized")
              EXCEPT !.rv = "True"]
boot(c) ==
    LET c1 == initialize(c)
        c2 == validate(c1)
        c3 == [c2 EXCEPT !.memory = MemoryModule(Boots(c) + 1),
                         !.codegen = CodeGenerator(Boots(c) + 1),
                         !.cli = CLI(Boots(c) + 1),
                         !.api = API(Boots(c) + 1),
                         !.system_state.status = "operational",
                         !.system_state.booted = TRUE]
    IN  IF c.system_state.booted THEN [c EXCEPT !.rv = "False"]
        ELSE IF c1.rv = "False" THEN c1
        ELSE IF c2.rv = "False" THEN c2
        ELSE [_log_state_transition(c3, "validated", "operational",
                                    "All subsystems initialized")
              EXCEPT !.rv = "True"]

status(c) ==
    [c EXCEPT !.rv = "dict",
              !.value = [version |-> c.system_state.version,
                         status |-> c.system_state.status,
                         booted |-> c.system_state.booted,
                         subsystems |-> [memory |-> c.memory # None,
                                         codegen |-> c.codegen # None,
                                         cli |-> c.cli # None,
                                         api |-> c.api # None]]]

operate(c) ==
    IF ~c.system_state.booted
    THEN [c EXCEPT !.rv = "dict", !.value = [error |-> "System not booted"]]
    ELSE status(c)

reconcile(c) ==
    IF ~c.system_state.booted THEN [c EXCEPT !.rv = "False"]
    ELSE IF None \in {c.memory, c.codegen, c.cli, c.api} THEN boot(c)
    ELSE [c EXCEPT !.rv = "True"]

checkpoint(c) ==
    [c EXCEPT !.rv = "dict",
              !.value = [version |-> c.system_state.version,
                         status |-> c.system_state.status,
                         booted |-> c.system_state.booted,
                         initialized |-> c.system_state.initialized,
                         validated |-> c.system_state.validated,
                         subsystems |-> [memory |-> c.memory # None,
                                         codegen |-> c.codegen # None,
                                         cli |-> c.cli # None,
                                         api |-> c.api # None],
                         state_history |-> c._state_history]]

shutdown_keeping_api(c) ==
    IF ~c.system_state.booted THEN [c EXCEPT !.rv = "False"]
    ELSE [c EXCEPT !.system_state.status = "shutdown",
                   !.system_state.booted = FALSE,
                   !.memory = None, !.codegen = None, !.cli = None,
                   !.rv = "True"]
\* self.memory.clear() and self.codegen.clear_history() empty the two objects
\* before the references to them are dropped.
shutdown(c) ==
    IF ~c.system_state.booted THEN [c EXCEPT !.rv = "False"]
    ELSE [c EXCEPT !.system_state.status = "shutdown",
                   !.system_state.booted = FALSE,
                   !.memory = None, !.codegen = None, !.cli = None, !.api = None,
                   !.rv = "True"]

terminate(c) == shutdown(c)

\* A call on the CIS: the object the method leaves becomes the CIS.
CallCIS(op, c) ==
    \E f \in {c} :
        /\ system_state' = f.system_state
        /\ memory' = f.memory
        /\ codegen' = f.codegen
        /\ cli' = f.cli
        /\ api' = f.api
        /\ _state_history' = f._state_history
        /\ clock' = f.clock
        /\ cis_call' = [op |-> op, rv |-> f.rv, value |-> f.value]
        /\ UNCHANGED <<orchestrator_vars, validator_vars, in_flight>>

\* The methods of MemoryModule on its storage dict (a dict keeps insertion
\* order), called by a client on the object get_memory() returns.
StoredKeys(storage) == {storage[i].key : i \in 1..Len(storage)}
create_overwriting(storage, key, value) ==
    IF key \in StoredKeys(storage)
    THEN [i \in 1..Len(storage) |->
             IF storage[i].key = key THEN [key |-> key, value |-> value]
             ELSE storage[i]]
    ELSE Append(storage, [key |-> key, value |-> value])
create(storage, key, value) ==
    IF key \in StoredKeys(storage) THEN storage
    ELSE Append(storage, [key |-> key, value |-> value])
delete(storage, key) ==
    LET kept(e) == e.key # key
    IN  SelectSeq(storage, kept)
read(storage, key) ==
    IF key \in StoredKeys(storage)
    THEN LET i == CHOOSE j \in 1..Len(storage) : storage[j].key = key
         IN  storage[i].value
    ELSE "None"
update(storage, key, value) ==
    IF key \notin StoredKeys(storage) THEN storage
    ELSE [i \in 1..Len(storage) |->
             IF storage[i].key = key THEN [key |-> key, value |-> value]
             ELSE storage[i]]
exists(storage, key) == key \in StoredKeys(storage)
list_keys(storage) == [i \in 1..Len(storage) |-> storage[i].key]
count(storage) == Len(storage)
get_memory_create(key, value) ==
    /\ memory # None
    /\ memory' = [memory EXCEPT !.storage = create(@, key, value)]
    /\ cis_call' = [op |-> "get_memory().create",
                    rv |-> IF key \in StoredKeys(memory.storage) THEN "False" ELSE "True",
                    value |-> <<>>]
    /\ UNCHANGED <<orchestrator_vars, validator_vars, in_flight, clock, system_state, codegen,
                   cli, api, _state_history>>
get_memory_delete(key) ==
    /\ memory # None
    /\ memory' = [memory EXCEPT !.storage = delete(@, key)]
    /\ cis_call' = [op |-> "get_memory().delete",
                    rv |-> IF key \in StoredKeys(memory.storage) THEN "True" ELSE "False",
                    value |-> <<>>]
    /\ UNCHANGED <<orchestrator_vars, validator_vars, in_flight, clock, system_state, codegen,
                   cli, api, _state_history>>

get_memory_update(key, value) ==
    /\ memory # None
    /\ memory' = [memory EXCEPT !.storage = update(@, key, value)]
    /\ cis_call' = [op |-> "get_memory().update",
                    rv |-> IF key \notin StoredKeys(memory.storage) THEN "False" ELSE "True",
                    value |-> <<>>]
    /\ UNCHANGED <<orchestrator_vars, validator_vars, in_flight, clock, system_state, codegen,
                   cli, api, _state_history>>
get_memory_read(key) ==
    /\ memory # None
    /\ cis_call' = [op |-> "get_memory().read", rv |-> read(memory.storage, key),
                    value |-> <<>>]
    /\ UNCHANGED <<orchestrator_vars, validator_vars, in_flight, clock, system_state, memory,
                   codegen, cli, api, _state_history>>
get_memory_exists(key) ==
    /\ memory # None
    /\ cis_call' = [op |-> "get_memory().exists",
                    rv |-> IF exists(memory.storage, key) THEN "True" ELSE "False",
                    value |-> <<>>]
    /\ UNCHANGED <<orchestrator_vars, validator_vars, in_flight, clock, system_state, memory,
                   codegen, cli, api, _state_history>>
get_memory_list_keys ==
    /\ memory # None
    /\ cis_call' = [op |-> "get_memory().list_keys", rv |-> "list",
                    value |-> list_keys(memory.storage)]
    /\ UNCHANGED <<orchestrator_vars, validator_vars, in_flight, clock, system_state, memory,
                   codegen, cli, api, _state_history>>
get_memory_count ==
    /\ memory # None
    /\ cis_call' = [op |-> "get_memory().count", rv |-> "int",
                    value |-> <<count(memory.storage)>>]
    /\ UNCHANGED <<orchestrator_vars, validator_vars, in_flight, clock, system_state, memory,
                   codegen, cli, api, _state_history>>

\* ------------------------------------------------------- specifications
Init ==
    /\ subsystems = <<>>
    /\ states = <<>>
    /\ dependencies = <<>>
    /\ checkpoints = <<>>
    /\ health_metrics = <<>>
    /\ recovery_attempts = <<>>
    /\ orchestrator_state = UNINITIALIZED
    /\ clock = 0
    /\ calls = <<>>
    /\ trans = <<>>
    /\ ret = [op |-> "__init__", name |-> "", exc |-> NoExc, rv |-> "None", value |-> <<>>]
    /\ validation_rules = <<>>
    /\ validation_history = <<>>
    /\ validation = NoValidation
    /\ system_state = [status |-> "created", version |-> "1.0", booted |-> FALSE,
                       initialized |-> FALSE, validated |-> FALSE, error |-> "None"]
    /\ memory = None
    /\ codegen = None
    /\ cli = None
    /\ api = None
    /\ _state_history = <<>>
    /\ cis_call = [op |-> "__init__", rv |-> "None", value |-> <<>>]
    /\ in_flight = Idle

TotalDeps == LET RECURSIVE sum(_)
                 sum(i) == IF i = 0 THEN 0
                           ELSE Len(dependencies[subsystems[i].name]) + sum(i - 1)
             IN  sum(Len(subsystems))
AttemptsBelow(cap) == \A n \in Registered : recovery_attempts[n] < cap
ClockBelowCap == clock + Len(subsystems) <= MaxClock

\* Registration of a fresh name, within the cap on declared dependencies.  A
\* second registration of a name raises whatever the instance and dependencies.
RegisterFresh(names, instances, depnames) ==
    \E n \in names \ Registered, s \in instances :
        \E d \in UNION {Orders(S) : S \in SUBSET depnames} :
            /\ TotalDeps + Len(d) <= MaxEdges
            /\ register_subsystem(n, s, d)
RegisterAgain ==
    \E n \in Registered : register_subsystem(n, Healthy, <<>>)

\* Every public call.
Lifecycle(names, cap) ==
    \/ RegisterAgain
    \/ initialize_all
    \/ validate_all
    \/ \E n \in names \cup {Unregistered} : AttemptsBelow(cap) /\ operate_subsystem(n)
    \/ \E n \in names \cup {Unregistered} : reconcile_subsystem_call(n)
    \/ \E n \in names \cup {Unregistered} : ClockBelowCap /\ checkpoint_subsystem_call(n)
    \/ ClockBelowCap /\ checkpoint_all
    \/ terminate_all
    \/ \E h \in [Registered -> HealthOutcome] : AttemptsBelow(cap) /\ monitor_health(h)

\* The whole lifecycle of two subsystems, each declaring at most one dependency.
Next ==
    \/ \E d \in {"A", Unregistered} : RegisterFresh({"A", "B"}, {Healthy}, {d})
    \/ Lifecycle({"A", "B"}, MaxPairAttempts)

Spec == Init /\ [][Next]_vars

\* The whole lifecycle of one subsystem, to the end of its recovery attempts.
NextRecovery ==
    \/ RegisterFresh({"A"}, LifecycleInstances, {Unregistered})
    \/ Lifecycle({"A"}, MaxAttempts)

SpecRecovery == Init /\ [][NextRecovery]_vars

\* Dependency resolution over every registry of three names.
NextResolve ==
    \/ RegisterFresh(Names, {Healthy}, DepNames)
    \/ resolve_dependencies_call

SpecResolve == Init /\ [][NextResolve]_vars

\* Startup and shutdown over three names.
NextStartup ==
    \/ RegisterFresh(Names, {Healthy, InitFalse, InitThrow}, DepNames)
    \/ initialize_all
    \/ terminate_all

SpecStartup == Init /\ [][NextStartup]_vars

\* Validation, checkpointing and shutdown of two subsystems whose validate(),
\* checkpoint() or terminate() may fail.
NextFaulty ==
    \/ RegisterFresh({"A", "B"}, FaultyInstances, {})
    \/ validate_all
    \/ \E n \in {"A", "B"} : ClockBelowCap /\ checkpoint_subsystem_call(n)
    \/ \E n \in {"A", "B"} : operate_subsystem(n)
    \/ terminate_all

SpecFaulty == Init /\ [][NextFaulty]_vars

\* Two callers of one orchestrator without a lock between them: the calls of
\* one run whole, monitor_health of the other can be overtaken at its
\* get_health() calls.  Subsystems are registered before monitoring starts.
NextCallers ==
    \/ ~in_flight.active /\ ~in_flight.done /\ RegisterFresh({"A", "B"}, {Healthy}, {})
    \/ \E h \in [Registered -> HealthOutcome] :
            AttemptsBelow(MaxPairAttempts) /\ monitor_health_enter(h)
    \/ monitor_health_resume
    \/ \E h \in [Registered -> HealthOutcome] :
            /\ AttemptsBelow(MaxPairAttempts)
            /\ OtherCaller(monitor_loop(Frame, Keys(subsystems), 1, h), "monitor_health", "")
    \/ \E n \in {"A", "B"} :
            OtherCaller(reconcile_subsystem(Frame, n), "reconcile_subsystem", n)
    \/ \E n \in {"A", "B"} :
            ClockBelowCap /\ OtherCaller(checkpoint_subsystem(Frame, n), "checkpoint_subsystem", n)

SpecCallers == Init /\ [][NextCallers]_vars

\* The validator: rules are added and snapshots validated in any order.
NextValidator ==
    \/ \E n \in RuleNames, f \in RuleFunctions, c \in BOOLEAN :
            Len(validation_rules) < MaxRules /\ add_rule(n, f, c)
    \/ \E s \in Snapshots :
            Len(validation_history) < MaxValidations /\ validate_system(s)

SpecValidator == Init /\ [][NextValidator]_vars

\* One CIS, its lifecycle hooks called in any order, and a client of its memory.
NextCIS ==
    \/ CallCIS("initialize", initialize(Self))
    \/ CallCIS("validate", validate(Self))
    \/ (system_state.booted \/ Boots(Self) < MaxBoots) /\ CallCIS("boot", boot(Self))
    \/ CallCIS("operate", operate(Self))
    \/ CallCIS("reconcile", reconcile(Self))
    \/ CallCIS("checkpoint", checkpoint(Self))
    \/ CallCIS("terminate", terminate(Self))
    \/ CallCIS("shutdown", shutdown(Self))
    \/ CallCIS("status", status(Self))
    \/ \E k \in StoreKeys, v \in StoreValues : get_memory_create(k, v)
    \/ \E k \in StoreKeys : get_memory_delete(k)
    \/ \E k \in StoreKeys, v \in StoreValues : get_memory_update(k, v)
    \/ \E k \in StoreKeys : get_memory_read(k)
    \/ \E k \in StoreKeys : get_memory_exists(k)
    \/ get_memory_list_keys
    \/ get_memory_count

SpecCIS == Init /\ [][NextCIS]_vars

\* ----------------------------------------------------- notions of the claims
\* The registered dependencies of a name, and all it depends on through them.
DepsIn(n) == Range(dependencies[n]) \cap Registered
TransitiveDeps(n) ==
    LET RECURSIVE grow(_)
        grow(S) == LET T == S \cup UNION {DepsIn(x) : x \in S}
                   IN  IF T = S THEN S ELSE grow(T)
    IN  grow(DepsIn(n))
Acyclic == \A n \in Registered : n \notin TransitiveDeps(n)
AllDepsRegistered == \A n \in Registered : Range(dependencies[n]) \subseteq Registered
Pos(seq, x) == CHOOSE i \in 1..Len(seq) : seq[i] = x
\* The subsystems a capability was called on by the last public call, in order.
CalledOn(log, method) ==
    LET RECURSIVE pick(_)
        pick(i) == IF i > Len(log) THEN <<>>
                   ELSE IF log[i].method = method THEN <<log[i].sub>> \o pick(i + 1)
                   ELSE pick(i + 1)
    IN  pick(1)
\* The states written for one subsystem by the last public call, in order.
WritesOf(log, n) ==
    LET RECURSIVE pick(_)
        pick(i) == IF i > Len(log) THEN <<>>
                   ELSE IF log[i].sub = n THEN <<log[i].to>> \o pick(i + 1)
                   ELSE pick(i + 1)
    IN  pick(1)

\* ------------------------------------------------------------------ claims
\* C1: for every acyclic dependency graph over the registered subsystems,
\* _resolve_dependencies returns each registered name exactly once, every name
\* after all of its direct and transitive registered dependencies.
C1_ResolvedOrderRespectsDependencies ==
    (ret.op = "_resolve_dependencies" /\ Acyclic) =>
        /\ ret.exc.type = "none"
        /\ Len(ret.value) = Len(subsystems)
        /\ Range(ret.value) = Registered
        /\ \A n \in Registered : \A d \in TransitiveDeps(n) :
                Pos(ret.value, d) < Pos(ret.value, n)
\* A chain of three resolved, the dependency of a dependency registered last.
C1_Witness ==
    /\ ret.op = "_resolve_dependencies"
    /\ Acyclic
    /\ Len(subsystems) = 3
    /\ \E n \in Registered : \E d \in TransitiveDeps(n) \ DepsIn(n) :
            Pos(Keys(subsystems), n) < Pos(Keys(subsystems), d)

\* C2: when the declared dependencies contain a cycle, initialize_all raises a
\* dependency error before any initialize() is called and every registered
\* subsystem is still uninitialized.
C2_CycleRaisesDependencyError ==
    (ret.op = "initialize_all" /\ ~Acyclic) =>
        /\ ret.exc.type = "DependencyError"
        /\ CalledOn(calls, "initialize") = <<>>
        /\ \A n \in Registered : states[n] = UNINITIALIZED

\* C3: from a registry of uninitialized subsystems, initialize_all stops at the
\* first subsystem in resolution order whose initialize() returns false or
\* throws: it returns false, that subsystem is failed, the later ones had no
\* initialize() call and are uninitialized, the overall status is failed.
C3_InitializeAllFailsFast ==
    [][(/\ ret'.op = "initialize_all"
        /\ \A n \in Registered : states[n] = UNINITIALIZED
        /\ Acyclic /\ AllDepsRegistered
        /\ \E n \in Registered : SubsystemOf(n).initialize # "true")
       => LET order == TopologicalSort.result
              k == CHOOSE i \in 1..Len(order) :
                     /\ SubsystemOf(order[i]).initialize # "true"
                     /\ \A j \in 1..(i - 1) : SubsystemOf(order[j]).initialize = "true"
          IN  /\ ret'.rv = "False"
              /\ states'[order[k]] = FAILED
              /\ \A j \in (k + 1)..Len(order) :
                    /\ states'[order[j]] = UNINITIALIZED
                    /\ order[j] \notin Range(CalledOn(calls', "initialize"))
              /\ orchestrator_state' = FAILED]_vars

\* C4: with an acyclic graph, every declared dependency registered and every
\* initialize() returning true, initialize_all returns true, the overall
\* status is operational and every registered subsystem is operational.
C4_AllInitializeOperational ==
    (/\ ret.op = "initialize_all"
     /\ Registered # {}
     /\ Acyclic /\ AllDepsRegistered
     /\ \A n \in Registered : SubsystemOf(n).initialize = "true")
    => /\ ret.rv = "True"
       /\ orchestrator_state = OPERATIONAL
       /\ \A n \in Registered : states[n] = OPERATIONAL

\* C5: operate_subsystem(X) for a registered X calls X.operate() only if X is
\* operational; in any other state it raises a state error carrying X's current
\* state and the expected state operational, calls nothing and changes no
\* state, attempt counter or checkpoint history.
C5_OperateOnlyWhenOperational ==
    [][\A n \in Registered :
         (ret'.op = "operate_subsystem" /\ ret'.name = n) =>
            /\ n \in Range(CalledOn(calls', "operate")) => states[n] = OPERATIONAL
            /\ states[n] # OPERATIONAL =>
                 /\ ret'.exc = [type |-> "StateError", current_state |-> states[n],
                                expected_state |-> OPERATIONAL]
                 /\ calls' = <<>>
                 /\ trans' = <<>>
                 /\ states' = states
                 /\ recovery_attempts' = recovery_attempts
                 /\ checkpoints' = checkpoints]_vars
\* operate_subsystem was refused on a registered subsystem that is failed.
C5_Witness ==
    /\ ret.op = "operate_subsystem"
    /\ ret.name \in Registered
    /\ ret.exc.type = "StateError"
    /\ ret.exc.current_state = FAILED
    /\ states[ret.name] = FAILED

\* C6: a checkpoint_subsystem call whose checkpoint() returns a snapshot
\* succeeds and appends it, the history keeping its 10 most recent entries in
\* the order taken (so 11 calls leave exactly the last 10).
C6_CheckpointKeepsLastTen ==
    [][\A n \in Registered :
         (/\ ret'.op = "checkpoint_subsystem" /\ ret'.name = n
          /\ SubsystemOf(n).checkpoint = "true")
         => /\ ret'.rv = "True"
            /\ checkpoints'[n] # <<>>
            /\ Len(checkpoints'[n]) <= CheckpointCapacity
            /\ checkpoints'[n] =
                 LastN(Append(checkpoints[n], checkpoints'[n][Len(checkpoints'[n])]),
                       CheckpointCapacity)]_vars

\* A failure of n induced in this step: get_health() reported critical to
\* monitor_health, or operate() threw in operate_subsystem(n).
Induced(n) ==
    \/ /\ ret'.op = "monitor_health"
       /\ \E i \in 1..Len(calls') :
            calls'[i] = [sub |-> n, method |-> "get_health", outcome |-> "critical"]
    \/ /\ ret'.op = "operate_subsystem" /\ ret'.name = n
       /\ \E i \in 1..Len(calls') :
            calls'[i] = [sub |-> n, method |-> "operate", outcome |-> "throw"]

\* C7: a subsystem whose reconcile() always fails and whose initialize() always
\* succeeds, its declared dependencies operational: one induced failure ends
\* with it operational, recovered by reinitialization, its counter 0.
C7_RecoversByReinitialize ==
    [][\A n \in Registered :
         (/\ Induced(n)
          /\ recovery_attempts[n] = 0
          /\ SubsystemOf(n).reconcile # "true"
          /\ SubsystemOf(n).initialize = "true"
          /\ \A d \in Range(dependencies[n]) : Get(states, d) = OPERATIONAL)
         => /\ states'[n] = OPERATIONAL
            /\ recovery_attempts'[n] = 0
            /\ n \in Range(CalledOn(calls', "initialize"))]_vars

\* C8: a subsystem whose reconcile() and initialize() both always fail is
\* failed after every induced failure, and from the 4th induced failure on the
\* recovery makes no attempt at all: no reconcile() or initialize() call and no
\* state write but the marking as failed.
C8_NoFourthAttempt ==
    [][\A n \in Registered :
         (/\ Induced(n)
          /\ SubsystemOf(n).reconcile # "true"
          /\ SubsystemOf(n).initialize # "true")
         => /\ states'[n] = FAILED
            /\ recovery_attempts'[n] = recovery_attempts[n] + 1
            /\ recovery_attempts[n] >= max_recovery_attempts =>
                 /\ n \notin Range(CalledOn(calls', "reconcile"))
                 /\ n \notin Range(CalledOn(calls', "initialize"))
                 /\ WritesOf(trans', n) = <<FAILED>>]_vars
\* The 4th induced failure of such a subsystem has been handled.
C8_Witness ==
    /\ ret.op = "monitor_health"
    /\ \E n \in Registered :
        /\ SubsystemOf(n).reconcile # "true"
        /\ SubsystemOf(n).initialize # "true"
        /\ recovery_attempts[n] = max_recovery_attempts + 1
        /\ states[n] = FAILED
        /\ \E i \in 1..Len(calls) :
             calls[i] = [sub |-> n, method |-> "get_health", outcome |-> "critical"]

\* C9: terminate_all calls terminate() on the subsystems in exactly the reverse
\* of the order in which initialize_all resolves them.
C9_TerminateReversesInitOrder ==
    (ret.op = "terminate_all" /\ Acyclic) =>
        CalledOn(calls, "terminate") = Reverse(TopologicalSort.result)

\* C10: no public call of initialize_all, validate_all, reconcile_subsystem,
\* checkpoint_subsystem, checkpoint_all or terminate_all moves a failed
\* subsystem to any other state.
C10_FailedLeftOnlyByRecovery ==
    [][\A n \in Registered :
         (/\ states[n] = FAILED
          /\ ret'.op \in {"initialize_all", "validate_all", "reconcile_subsystem",
                          "checkpoint_subsystem", "checkpoint_all", "terminate_all"})
         => states'[n] = FAILED]_vars

\* C11: every state write made by a public call follows the transition table:
\* initializing is entered only from uninitialized; validating, reconciling,
\* checkpointing and terminating only from operational; the recovery procedure
\* (inside operate_subsystem and monitor_health) alone may enter reconciling or
\* initializing from failed; and operational is entered from uninitialized
\* (through initializing) only after initialize() returned true in that call.
C11_WritesFollowTransitionTable ==
    [][\A i \in 1..Len(trans') :
         LET w == trans'[i]
             recovering == ret'.op \in {"operate_subsystem", "monitor_health"}
         IN  /\ w.to = INITIALIZING =>
                  \/ w.from = UNINITIALIZED
                  \/ recovering /\ w.from = FAILED
             /\ w.to = RECONCILING =>
                  \/ w.from = OPERATIONAL
                  \/ recovering /\ w.from = FAILED
             /\ w.to \in {VALIDATING, CHECKPOINTING, TERMINATING} =>
                  w.from = OPERATIONAL
             /\ (w.to = OPERATIONAL /\ w.from = INITIALIZING) =>
                  \E j \in 1..Len(calls') :
                      calls'[j] = [sub |-> w.sub, method |-> "initialize",
                                   outcome |-> "true"]]_vars

\* What a rule does with a snapshot, read off the rule itself.
ReturnsInvalid(rule, s) == rule.function[s].kind = "returns" /\ ~rule.function[s].valid
RuleFails(rule, s) == rule.function[s].kind = "throws" \/ ~rule.function[s].valid
FailedCritical(s) ==
    LET failed(rule) == rule.critical /\ RuleFails(rule, s)
    IN  SelectSeq(validation_rules, failed)
Last(seq) == seq[Len(seq)]

\* C12: when validate_system runs with a critical rule and a non-critical rule
\* both returning valid=false, it raises a validation error whose failure list
\* and message name exactly the failed critical rules, in registration order,
\* and no non-critical rule, while the record appended to the history holds
\* the results of both.
C12_ErrorNamesOnlyCriticalFailures ==
    [][\A s \in Snapshots :
         (/\ validate_system(s)
          /\ \E i \in 1..Len(validation_rules) :
                validation_rules[i].critical /\ ReturnsInvalid(validation_rules[i], s)
          /\ \E i \in 1..Len(validation_rules) :
                ~validation_rules[i].critical /\ ReturnsInvalid(validation_rules[i], s))
         => /\ validation'.exc = "ValidationError"
            /\ Len(validation'.failures) = Len(FailedCritical(s))
            /\ \A k \in 1..Len(validation'.failures) :
                  /\ validation'.failures[k].rule = FailedCritical(s)[k].name
                  /\ validation'.failures[k].critical
                  /\ ~validation'.failures[k].valid
                  /\ validation'.failures[k].message =
                        FailedCritical(s)[k].function[s].message
            /\ validation'.message =
                  <<"Critical validation failures:">> \o
                  [k \in 1..Len(FailedCritical(s)) |->
                      <<FailedCritical(s)[k].name,
                        FailedCritical(s)[k].function[s].message>>]
            /\ \A i \in 1..Len(validation_rules) :
                  ReturnsInvalid(validation_rules[i], s) =>
                     \E k \in 1..Len(Last(validation_history').results) :
                        Last(validation_history').results[k] =
                            [rule |-> validation_rules[i].name, valid |-> FALSE,
                             message |-> validation_rules[i].function[s].message,
                             critical |-> validation_rules[i].critical]]_vars
\* A validation raised naming one rule, its record holds the invalid results of
\* a critical and of a non-critical rule that share a name.
C12_Witness ==
    /\ validation.exc = "ValidationError"
    /\ Len(validation.failures) = 1
    /\ validation_history # <<>>
    /\ LET results == Last(validation_history).results
       IN  \E i, j \in 1..Len(results) :
              /\ results[i].critical /\ ~results[i].valid
              /\ ~results[j].critical /\ ~results[j].valid
              /\ results[i].rule = results[j].rule

\* C13: every validate_system call appends exactly one record to the history,
\* also when it raises; the record's passed flag is true iff no critical rule
\* failed (returned valid=false or threw); the call raises iff passed is false
\* and otherwise returns true.
C13_OneRecordPerValidation ==
    [][\A s \in Snapshots :
         validate_system(s) =>
            /\ Len(validation_history') = Len(validation_history) + 1
            /\ SubSeq(validation_history', 1, Len(validation_history)) = validation_history
            /\ Last(validation_history').passed <=> FailedCritical(s) = <<>>
            /\ validation'.rv = "raised" <=> ~Last(validation_history').passed
            /\ validation'.rv # "raised" => validation'.rv = "True"]_vars
\* A raising call and then a call returning true were both recorded, the
\* second although a non-critical rule returned valid=false.
C13_Witness ==
    /\ Len(validation_history) = 2
    /\ ~validation_history[1].passed
    /\ validation_history[2].passed
    /\ validation.rv = "True"
    /\ \E k \in 1..Len(validation_history[2].results) :
          ~validation_history[2].results[k].valid

\* C14: register_subsystem with a name already registered raises an error and
\* leaves every record as it was (instance, state, dependencies, checkpoint
\* history, attempt counter); with a fresh name it records the name as
\* uninitialized with its instance and dependencies, an empty checkpoint
\* history and attempt counter 0, and changes no other record.
C14_RegisterOnceOnly ==
    [][ret'.op = "register_subsystem" =>
         LET n == ret'.name
         IN  IF n \in Registered
             THEN /\ ret'.exc.type = "LifecycleError"
                  /\ subsystems' = subsystems
                  /\ states' = states
                  /\ dependencies' = dependencies
                  /\ checkpoints' = checkpoints
                  /\ recovery_attempts' = recovery_attempts
             ELSE /\ ret'.exc.type = "none"
                  /\ Registered' = Registered \cup {n}
                  /\ states'[n] = UNINITIALIZED
                  /\ checkpoints'[n] = <<>>
                  /\ recovery_attempts'[n] = 0
                  /\ SubSeq(subsystems', 1, Len(subsystems)) = subsystems
                  /\ \A x \in Registered :
                        /\ states'[x] = states[x]
                        /\ dependencies'[x] = dependencies[x]
                        /\ checkpoints'[x] = checkpoints[x]
                        /\ recovery_attempts'[x] = recovery_attempts[x]]_vars
\* A second registration was refused for a subsystem that is failed after one
\* recovery attempt and declares a dependency, beside another subsystem.
C14_Witness ==
    /\ ret.op = "register_subsystem"
    /\ ret.exc.type = "LifecycleError"
    /\ Len(subsystems) = 2
    /\ states[ret.name] = FAILED
    /\ recovery_attempts[ret.name] = 1
    /\ dependencies[ret.name] # <<>>

\* The reconcile() and initialize() calls made on one subsystem, in order.
RecoveryCalls(log, n) ==
    LET made(c) == c.sub = n /\ c.method \in {"reconcile", "initialize"}
    IN  SelectSeq(log, made)
\* What monitor_health leaves when get_health() reports critical for n alone.
ViaCriticalHealth(n) ==
    monitor_loop(Frame, Keys(subsystems), 1,
                 [x \in Registered |-> IF x = n THEN "critical" ELSE "ok"])

C16_CheckpointAllBestEffort ==
    (ret.op = "checkpoint_all" /\ Registered # {}) =>
        /\ ret.rv \in {"True", "False"}
        /\ \A n \in Registered :
              Cardinality({i \in 1..Len(trans) :
                              trans[i].sub = n /\ trans[i].to = CHECKPOINTING}) = 1
        /\ ret.rv = "True" <=>
              \A n \in Registered :
                  /\ SubsystemOf(n).checkpoint = "true"
                  /\ checkpoints[n] # <<>>

\* C17: nothing propagates out of initialize_all, validate_all,
\* operate_subsystem, reconcile_subsystem, checkpoint_subsystem, checkpoint_all,
\* terminate_all or monitor_health but a dependency cycle, an unknown name and
\* the state guard of operate_subsystem; in particular a call in which a
\* capability threw returns normally.
C17_OnlyCycleUnknownNameAndGuardRaise ==
    (/\ ret.op \in {"initialize_all", "validate_all", "operate_subsystem",
                    "reconcile_subsystem", "checkpoint_subsystem", "checkpoint_all",
                    "terminate_all", "monitor_health"}
     /\ ret.exc.type # "none")
    => \/ /\ ret.op \in {"initialize_all", "terminate_all"}
          /\ ~Acyclic
          /\ ret.exc.type = "DependencyError"
       \/ /\ ret.op \in {"operate_subsystem", "reconcile_subsystem", "checkpoint_subsystem"}
          /\ ret.name \notin Registered
          /\ ret.exc.type = "DependencyError"
       \/ /\ ret.op = "operate_subsystem"
          /\ ret.name \in Registered
          /\ ret.exc.type = "StateError"
          /\ \A i \in 1..Len(calls) : calls[i].outcome # "throw"

\* C18: a declared dependency name that was never registered is skipped by
\* _resolve_dependencies: with such a name declared, the resolution raises only
\* if the registered subsystems depend on each other in a cycle, and otherwise
\* returns every registered name exactly once and no other name, each after
\* the registered names it declares.
C18_UnregisteredDependencySkipped ==
    (ret.op = "_resolve_dependencies" /\ ~AllDepsRegistered) =>
        /\ ret.exc.type # "none" <=> ~Acyclic
        /\ Acyclic =>
              /\ Len(ret.value) = Cardinality(Registered)
              /\ Range(ret.value) = Registered
              /\ Unregistered \notin Range(ret.value)
              /\ \A n \in Registered : \A d \in DepsIn(n) :
                    Pos(ret.value, d) < Pos(ret.value, n)
\* Resolved without error: a subsystem declaring the never-registered name
\* first and a registered subsystem after it, which it follows in the result.
C18_Witness ==
    /\ ret.op = "_resolve_dependencies"
    /\ ret.exc.type = "none"
    /\ \E n \in Registered :
          /\ Len(dependencies[n]) = 2
          /\ dependencies[n][1] = Unregistered
          /\ dependencies[n][2] \in Registered
          /\ Pos(ret.value, dependencies[n][2]) < Pos(ret.value, n)
          /\ Pos(Keys(subsystems), n) < Pos(Keys(subsystems), dependencies[n][2])

\* C19: a dependency on a never-registered name is ignored by initialization:
\* with an acyclic graph and every initialize() returning true (so that the
\* registered dependencies of every subsystem come up before it), initialize_all
\* returns true and makes operational every subsystem X that declares such a
\* name.
C19_UnregisteredDependencyIgnoredAtInit ==
    \A X \in Registered :
        (/\ ret.op = "initialize_all"
         /\ Acyclic
         /\ ~(Range(dependencies[X]) \subseteq Registered)
         /\ \A n \in Registered : SubsystemOf(n).initialize = "true")
        => /\ ret.rv = "True"
           /\ states[X] = OPERATIONAL

\* C20: CIS.boot() returns true iff the system is not booted and
\* CIS.shutdown() returns true iff it is booted; a refused boot() or shutdown()
\* changes neither the status, the booted flag nor the subsystem handles (so
\* boot() succeeds again after a shutdown()).
C20_BootAndShutdownAlternate ==
    [][/\ cis_call'.op = "boot" =>
            /\ cis_call'.rv = "True" <=> ~system_state.booted
            /\ cis_call'.rv = "True" => system_state'.booted
            /\ system_state.booted =>
                  /\ cis_call'.rv = "False"
                  /\ UNCHANGED <<system_state, memory, codegen, cli, api>>
       /\ cis_call'.op = "shutdown" =>
            /\ cis_call'.rv = "True" <=> system_state.booted
            /\ cis_call'.rv = "True" => ~system_state'.booted
            /\ ~system_state.booted =>
                  /\ cis_call'.rv = "False"
                  /\ UNCHANGED <<system_state, memory, codegen, cli, api>>]_vars
\* boot() was refused on a CIS that is booted for the second time, after a
\* shutdown, with a key in its memory.
C20_Witness ==
    /\ cis_call = [op |-> "boot", rv |-> "False", value |-> <<>>]
    /\ system_state.booted
    /\ system_state.status = "operational"
    /\ memory # None
    /\ memory.id = 2
    /\ memory.storage # <<>>

\* ------------------------------------------------------------------ C21
\* The four subsystem handles of the CIS.
Handles == {memory, codegen, cli, api}

\* C21: in every state of a CIS reached through initialize, validate, boot,
\* operate, reconcile, checkpoint, terminate and shutdown, the booted flag is
\* true exactly when the status is 'operational' and exactly when all four
\* handles (memory, codegen, cli, api) are present, and when it is false none
\* of them is; right after a shutdown() or terminate() that returned True the
\* status is 'shutdown', booted is false and the four handles are absent.
C21_BootedIffOperationalIffHandles ==
    /\ system_state.booted <=> system_state.status = "operational"
    /\ system_state.booted <=> None \notin Handles
    /\ ~system_state.booted => Handles = {None}
    /\ cis_call.op \in {"shutdown", "terminate"} /\ cis_call.rv = "True"
           => /\ system_state.status = "shutdown"
              /\ ~system_state.booted
              /\ Handles = {None}

\* The second shutdown() of a CIS that returned True.
C21_Witness ==
    /\ cis_call = [op |-> "shutdown", rv |-> "True", value |-> <<>>]
    /\ system_state.status = "shutdown"
    /\ Boots(Self) = 2
    /\ Handles = {None}

\* ------------------------------------------------------------------ C22
\* The key is one of those the store of the CIS's memory holds.
Present(key) == \E i \in DOMAIN memory.storage : memory.storage[i].key = key

\* C22: in MemoryModule, create returns True exactly when the key is absent,
\* update and delete return True exactly when the key is present; a create,
\* update or delete that fails returns False and leaves the whole store as
\* it was; read, exists, count and list_keys never modify the store.
C22_FailedWritesAndReadsLeaveStore ==
    [][ /\ \A k \in StoreKeys, v \in StoreValues :
            /\ get_memory_create(k, v)
                   => /\ cis_call'.rv = (IF Present(k) THEN "False" ELSE "True")
                      /\ cis_call'.rv = "False" => memory' = memory
            /\ get_memory_update(k, v)
                   => /\ cis_call'.rv = (IF Present(k) THEN "True" ELSE "False")
                      /\ cis_call'.rv = "False" => memory' = memory
        /\ \A k \in StoreKeys :
            /\ get_memory_delete(k)
                   => /\ cis_call'.rv = (IF Present(k) THEN "True" ELSE "False")
                      /\ cis_call'.rv = "False" => memory' = memory
            /\ get_memory_read(k) \/ get_memory_exists(k) => memory' = memory
        /\ get_memory_count \/ get_memory_list_keys => memory' = memory
      ]_vars

\* A create that was refused on a store holding both keys with different
\* values.
C22_Witness ==
    /\ cis_call = [op |-> "get_memory().create", rv |-> "False", value |-> <<>>]
    /\ memory # None
    /\ memory.storage = <<[key |-> "k1", value |-> "v1"], [key |-> "k2", value |-> "v2"]>>

\* ------------------------------------------------------------------ C23
\* C23: a trigger of the recovery procedure that leaves the attempt counter at
\* 3 or less after the increment calls reconcile() exactly once and first, and
\* initialize() at most once and only after that reconcile() failed; when the
\* last of these calls succeeds the counter is back at 0 and the subsystem is
\* operational.
C23_OneReconcileThenAtMostOneInitialize ==
    [][\A n \in Registered :
         (Induced(n) /\ recovery_attempts[n] + 1 <= max_recovery_attempts)
         => LET made == RecoveryCalls(calls', n)
            IN  /\ Len(made) \in {1, 2}
                /\ made[1].method = "reconcile"
                /\ Len(made) = 2 => /\ made[2].method = "initialize"
                                    /\ made[1].outcome # "true"
                /\ made[Len(made)].outcome = "true"
                       => /\ recovery_attempts'[n] = 0
                          /\ states'[n] = OPERATIONAL]_vars

\* ------------------------------------------------------------------ C24
\* Some declared dependency of n is in a state other than operational before
\* and after the step, hence whenever the step looks at it.
DependencyNotOperational(n) ==
    \E d \in Range(dependencies[n]) :
        Get(states, d) # OPERATIONAL /\ Get(states', d) # OPERATIONAL

\* C24: initialize() is never invoked on a subsystem X while a name in X's
\* declared dependencies is in a state other than operational, by initialize_all
\* or by the reinitialize step of the recovery; when the recovery of X reaches
\* that step with such a dependency, X is not moved to initializing, it ends
\* failed, and its attempt counter keeps the increment.
C24_NoInitializeBeforeDependencies ==
    [][\A n \in Registered :
         /\ n \in Range(CalledOn(calls', "initialize")) => ~DependencyNotOperational(n)
         /\ (/\ Induced(n)
             /\ recovery_attempts[n] < max_recovery_attempts
             /\ [sub |-> n, method |-> "reconcile", outcome |-> "true"] \notin Range(calls')
             /\ DependencyNotOperational(n))
                => /\ n \notin Range(CalledOn(calls', "initialize"))
                   /\ INITIALIZING \notin Range(WritesOf(trans', n))
                   /\ states'[n] = FAILED
                   /\ recovery_attempts'[n] = recovery_attempts[n] + 1]_vars

\* The recovery of a subsystem that declares a registered dependency which is
\* not operational has reached its reinitialize step and stopped at the check.
C24_Witness ==
    /\ ret.op = "monitor_health"
    /\ \E n \in Registered :
        /\ [sub |-> n, method |-> "get_health", outcome |-> "critical"] \in Range(calls)
        /\ \E d \in Range(dependencies[n]) \cap Registered : states[d] # OPERATIONAL
        /\ WritesOf(trans, n) = <<FAILED, RECONCILING, FAILED, FAILED>>
        /\ states[n] = FAILED
        /\ recovery_attempts[n] = 1

\* ------------------------------------------------------------------ C25
\* C25: a subsystem's attempt counter is never negative and only the recovery
\* procedure changes it: every induced failure (operate() exception or critical
\* health status), those after the ceiling of 3 was reached included, leaves
\* it one higher, or at 0 with the subsystem operational when that recovery
\* succeeded; every other call, initialize_all, validate_all,
\* reconcile_subsystem, checkpoint_subsystem, checkpoint_all and terminate_all
\* among them, leaves it as it was.
C25_CounterMovedOnlyByRecovery ==
    [][\A n \in Registered :
         /\ recovery_attempts'[n] >= 0
         /\ Induced(n)
                => \/ recovery_attempts'[n] = recovery_attempts[n] + 1
                   \/ recovery_attempts'[n] = 0 /\ states'[n] = OPERATIONAL
         /\ ~Induced(n) => recovery_attempts'[n] = recovery_attempts[n]
         /\ ret'.op \in {"initialize_all", "validate_all", "reconcile_subsystem",
                         "checkpoint_subsystem", "checkpoint_all", "terminate_all"}
                => recovery_attempts'[n] = recovery_attempts[n]]_vars

\* reconcile_subsystem has run on a subsystem whose counter had passed the
\* ceiling, after a 4th induced failure.
C25_Witness ==
    /\ ret.op = "reconcile_subsystem"
    /\ ret.name \in Registered
    /\ recovery_attempts[ret.name] = max_recovery_attempts + 1

C27_TerminateAllVisitsEverySubsystem ==
    [][(ret'.op = "terminate_all" /\ Acyclic)
       => /\ ret'.exc = NoExc
          /\ \A n \in Registered :
                /\ Cardinality({i \in 1..Len(calls') :
                                   calls'[i].sub = n /\ calls'[i].method = "terminate"}) = 1
                /\ states'[n] = IF SubsystemOf(n).terminate = "true" THEN TERMINATED
                                ELSE TERMINATING
                /\ RecoveryCalls(calls', n) = <<>>
                /\ recovery_attempts'[n] = recovery_attempts[n]
          /\ ret'.rv = "True" <=> \A n \in Registered : SubsystemOf(n).terminate = "true"
          /\ orchestrator_state' = TERMINATED]_vars

\* ------------------------------------------------------------------ C28
\* C28: validate_all is fail-fast: at the first subsystem, in registration
\* order, whose validate() returns false or throws it returns false with that
\* subsystem failed, and it neither calls validate() on nor changes the state
\* of any subsystem after it; when every validate() returns true it returns
\* true and every subsystem is operational.
C28_ValidateAllFailsFast ==
    [][(ret'.op = "validate_all" /\ Registered # {})
       => LET order == Keys(subsystems)
              fails(i) == SubsystemOf(order[i]).validate # "true"
          IN  IF \A i \in 1..Len(order) : ~fails(i)
              THEN /\ ret'.rv = "True"
                   /\ \A n \in Registered : states'[n] = OPERATIONAL
              ELSE LET k == CHOOSE i \in 1..Len(order) :
                                fails(i) /\ \A j \in 1..(i - 1) : ~fails(j)
                   IN  /\ ret'.rv = "False"
                       /\ states'[order[k]] = FAILED
                       /\ \A j \in (k + 1)..Len(order) :
                             /\ states'[order[j]] = states[order[j]]
                             /\ order[j] \notin Range(CalledOn(calls', "validate"))]_vars

\* ------------------------------------------------------------------ C29
\* initialize_all, validate_all or reconcile_subsystem has left n failed in
\* this step, having acted on it.
FailedOutsideOperation(n) ==
    /\ ret'.op \in {"initialize_all", "validate_all", "reconcile_subsystem"}
    /\ WritesOf(trans', n) # <<>>
    /\ states'[n] = FAILED

\* C29, as stated: a failure of a subsystem in initialize_all, validate_all or
\* reconcile_subsystem increments its attempt counter and starts the recovery,
\* as an operate() exception or a critical health status does.
C29_AnyFailureTriggersRecovery ==
    [][\A n \in Registered :
         FailedOutsideOperation(n)
            => recovery_attempts'[n] = recovery_attempts[n] + 1]_vars

\* C29, amended: only an operate() exception and a critical health status
\* trigger the recovery.  initialize_all, validate_all and reconcile_subsystem
\* leave every attempt counter as it was, and a reconcile_subsystem that fails
\* marks the subsystem failed and returns false after its one attempt.
C29_OnlyOperateAndHealthTriggerRecovery ==
    [][\A n \in Registered :
         /\ recovery_attempts'[n] # recovery_attempts[n] => Induced(n)
         /\ ret'.op \in {"initialize_all", "validate_all", "reconcile_subsystem"}
                => recovery_attempts'[n] = recovery_attempts[n]
         /\ (ret'.op = "reconcile_subsystem" /\ ret'.name = n /\ ret'.rv = "False")
                => /\ states'[n] = FAILED
                   /\ WritesOf(trans', n) = <<RECONCILING, FAILED>>]_vars

\* reconcile_subsystem has failed on a subsystem that never failed before.
C29_Witness ==
    /\ ret.op = "reconcile_subsystem"
    /\ ret.rv = "False"
    /\ ret.name \in Registered
    /\ states[ret.name] = FAILED
    /\ recovery_attempts[ret.name] = 0
    /\ WritesOf(trans, ret.name) = <<RECONCILING, FAILED>>

\* ------------------------------------------------------------------ C30
\* get_health() threw for n in the call just made.
HealthThrew(log, n) ==
    [sub |-> n, method |-> "get_health", outcome |-> "throw"] \in Range(log)

\* C30: each monitor_health call invokes get_health() exactly once on every
\* registered subsystem, in registration order, whatever its lifecycle state
\* and whatever an earlier subsystem reported; a get_health() that throws is
\* recorded as an error health entry, triggers no recovery and changes neither
\* the state nor the attempt counter of its subsystem, and a call in which no
\* subsystem reported critical changes no state and no counter at all.
C30_MonitorPollsEverySubsystemOnce ==
    [][ret'.op = "monitor_health"
       => /\ CalledOn(calls', "get_health") = Keys(subsystems)
          /\ \A n \in Registered :
                HealthThrew(calls', n)
                    => /\ health_metrics'[n] = "error"
                       /\ states'[n] = states[n]
                       /\ recovery_attempts'[n] = recovery_attempts[n]
                       /\ RecoveryCalls(calls', n) = <<>>
                       /\ WritesOf(trans', n) = <<>>
          /\ (\A i \in 1..Len(calls') : calls'[i].outcome # "critical")
                => /\ states' = states
                   /\ recovery_attempts' = recovery_attempts
                   /\ trans' = <<>>]_vars

\* A monitor_health call in which the first subsystem reported critical and
\* was not recovered, and get_health() of the second, polled after it, threw.
C30_Witness ==
    /\ ret.op = "monitor_health"
    /\ Len(calls) = 2
    /\ calls[1].outcome = "critical"
    /\ calls[2].outcome = "throw"
    /\ states[calls[1].sub] = FAILED
    /\ states[calls[2].sub] = CHECKPOINTING
    /\ health_metrics[calls[2].sub] = "error"
    /\ recovery_attempts[calls[2].sub] = 0

\* ------------------------------------------------------------------ C31
\* C31: a rule predicate that throws counts as a failed rule with the
\* exception's message, critical or not: the record appended by a run holds
\* exactly one result per registered rule, in registration order, the result
\* of a throwing rule being valid=false with the exception's message.
C31_ThrowingRuleRecordedAsFailed ==
    [][\A s \in Snapshots :
         validate_system(s) =>
            LET results == Last(validation_history').results
            IN  /\ Len(results) = Len(validation_rules)
                /\ \A i \in 1..Len(validation_rules) :
                      /\ results[i].rule = validation_rules[i].name
                      /\ results[i].critical = validation_rules[i].critical
                      /\ results[i].valid = validation_rules[i].function[s].valid
                      /\ results[i].message = validation_rules[i].function[s].message
       ]_vars

\* ------------------------------------------------------------------ C32
\* C32: validate_system calls the predicate of every registered rule exactly
\* once per call, in registration order and each with the snapshot given to the
\* call, also the rules after one that returned valid=false or threw, critical
\* or not; every rule that returns contributes its own result to the record,
\* whatever the other rules did.
C32_EveryRuleEvaluatedOnce ==
    [][\A s \in Snapshots :
         validate_system(s) =>
            /\ validation'.invoked =
                  [i \in 1..Len(validation_rules) |->
                      [rule |-> validation_rules[i].name, snapshot |-> s]]
            /\ \A i \in 1..Len(validation_rules) :
                  validation_rules[i].function[s].kind = "returns" =>
                     [rule |-> validation_rules[i].name,
                      valid |-> validation_rules[i].function[s].valid,
                      message |-> validation_rules[i].function[s].message,
                      critical |-> validation_rules[i].critical]
                        \in Range(Last(validation_history').results)]_vars

\* A run whose first rule, critical, threw and whose second rule was still
\* called and recorded.
C32_Witness ==
    /\ validation.op = "validate_system"
    /\ Len(validation_rules) = 2
    /\ validation_rules[1].critical
    /\ validation_rules[1].function = AlwaysThrows
    /\ validation_rules[2].function = ValidIfConsistent
    /\ Len(validation.invoked) = 2
    /\ validation.exc = "ValidationError"
    /\ Len(Last(validation_history).results) = 1
    /\ Last(validation_history).results[1].rule = validation_rules[2].name

\* ------------------------------------------------------------------ C33
\* The state, dependency, checkpoint-history and attempt-counter maps have
\* exactly the registered names as keys, each name registered once.
RegistryKeyed ==
    /\ Cardinality(Registered) = Len(subsystems)
    /\ DOMAIN states = Registered
    /\ DOMAIN dependencies = Registered
    /\ DOMAIN checkpoints = Registered
    /\ DOMAIN recovery_attempts = Registered
    /\ \A n \in Registered : states[n] \in LifecycleState

\* C33: in every reachable state the state, dependency, checkpoint-history and
\* attempt-counter maps have exactly the registered names as keys, every
\* registered name having exactly one state, and no operation removes a
\* registered name or changes its instance or its declared dependencies.
C33_RegistryKeysAreTheRegisteredNames ==
    [][/\ RegistryKeyed
       /\ RegistryKeyed'
       /\ Registered \subseteq Registered'
       /\ SubSeq(subsystems', 1, Len(subsystems)) = subsystems
       /\ \A n \in Registered : dependencies'[n] = dependencies[n]]_vars

\* Two subsystems are registered, the second declaring the first; the second
\* is failed after health monitoring and the first has been through a
\* checkpoint attempt.
C33_Witness ==
    /\ Len(subsystems) = 2
    /\ dependencies[subsystems[2].name] = <<subsystems[1].name>>
    /\ states[subsystems[2].name] = FAILED
    /\ recovery_attempts[subsystems[2].name] = 1
    /\ states[subsystems[1].name] = CHECKPOINTING
    /\ RegistryKeyed

\* ------------------------------------------------------------------ C34
\* The health entry monitor_health stores for what get_health() did.
Reported(outcome) == IF outcome = "throw" THEN "error" ELSE outcome
\* The dict the finished monitor_health call returned holds, for every
\* subsystem it polled, what that subsystem's get_health() reported to it.
ReturnedWhatWasReported ==
    \A k \in 1..Len(in_flight.keys) :
        Get(in_flight.returned, in_flight.keys[k])
            = Reported(in_flight.health[in_flight.keys[k]])

C36_NoTransientStateBetweenCalls ==
    [][\A n \in Registered :
         /\ states'[n] \notin {INITIALIZING, VALIDATING, RECONCILING}
         /\ (/\ ret'.op \in {"initialize_all", "validate_all", "reconcile_subsystem",
                             "operate_subsystem", "monitor_health"}
             /\ WritesOf(trans', n) # <<>>)
                => states'[n] \in {OPERATIONAL, FAILED}]_vars

\* A recovery triggered by monitor_health has gone through reconciling and
\* has ended before the call returned: the subsystem, which was left in
\* checkpointing by an earlier call, is failed.
C36_Witness ==
    /\ ret.op = "monitor_health"
    /\ \E n \in Registered :
          /\ RECONCILING \in Range(WritesOf(trans, n))
          /\ trans[1].from = CHECKPOINTING
          /\ states[n] = FAILED

\* ------------------------------------------------------------------ C37
\* Everything the orchestrator holds about subsystem n is as it was.
RecordUntouched(n) ==
    /\ states'[n] = states[n]
    /\ recovery_attempts'[n] = recovery_attempts[n]
    /\ checkpoints'[n] = checkpoints[n]
    /\ Get(health_metrics', n) = Get(health_metrics, n)

\* C37: operate_subsystem(X), reconcile_subsystem(X), checkpoint_subsystem(X)
\* and the recovery of X change only X's own state, attempt counter,
\* checkpoint history and health entry: every other subsystem, those that
\* declare X as a dependency included, keeps its state, counter and history,
\* and a subsystem polled by the same monitor_health call without reporting
\* critical keeps its state and counter while X is recovered or fails.
C37_OnlyOwnRecordChanges ==
    [][\A n \in Registered :
         /\ (/\ ret'.op \in {"operate_subsystem", "reconcile_subsystem",
                             "checkpoint_subsystem"}
             /\ ret'.name # n)
                => RecordUntouched(n)
         /\ (/\ ret'.op = "monitor_health"
             /\ [sub |-> n, method |-> "get_health", outcome |-> "critical"]
                    \notin Range(calls'))
                => /\ states'[n] = states[n]
                   /\ recovery_attempts'[n] = recovery_attempts[n]
                   /\ checkpoints'[n] = checkpoints[n]
                   /\ WritesOf(trans', n) = <<>>]_vars

\* The second subsystem declares the first and stayed uninitialized with
\* counter 0 while the first, reporting critical, went through its recovery
\* and failed.
C37_Witness ==
    /\ ret.op = "monitor_health"
    /\ Len(subsystems) = 2
    /\ dependencies[subsystems[2].name] = <<subsystems[1].name>>
    /\ calls = <<[sub |-> subsystems[1].name, method |-> "get_health", outcome |-> "critical"],
                 [sub |-> subsystems[2].name, method |-> "get_health", outcome |-> "ok"]>>
    /\ states[subsystems[1].name] = FAILED
    /\ recovery_attempts[subsystems[1].name] = 1
    /\ states[subsystems[2].name] = UNINITIALIZED
    /\ recovery_attempts[subsystems[2].name] = 0

\* ------------------------------------------------------------------ C38
\* C38: the overall status is changed only by initialize_all, which leaves it
\* operational when it succeeds and failed when it does not, and by
\* terminate_all, which leaves it terminated; every other operation
\* (registration, validate_all, operate, reconcile, checkpoint, monitoring and
\* the recoveries they start) leaves it as it was.
C38_OverallStatusSetByStartupAndShutdown ==
    [][/\ ret'.op = "initialize_all"
            => orchestrator_state' = IF ret'.rv = "True" THEN OPERATIONAL ELSE FAILED
       /\ ret'.op = "terminate_all" => orchestrator_state' = TERMINATED
       /\ ret'.op \notin {"initialize_all", "terminate_all"}
            => orchestrator_state' = orchestrator_state]_vars

====
